---- MODULE Spec2Model ----
(***************************************************************************)
(* Model of java/java.go (android/soong): the Java module types.           *)
(*                                                                         *)
(* A module is processed in two passes that the build graph (blueprint)    *)
(* drives: AndroidDynamicDependencies declares dependency names, and       *)
(* GenerateAndroidBuildActions visits the resolved direct dependencies     *)
(* (collectDeps) and emits the build rules (GenerateJavaBuildActions).     *)
(* The graph, the rule builders of builder.go and the module context are   *)
(* outside java.go: the graph's choice of visited dependencies and the     *)
(* failure of a rule builder are inputs the actions draw with \E.          *)
(***************************************************************************)
EXTENDS Naturals, Sequences, FiniteSets, TLC

VARIABLES
    properties,        \* javaBase.properties of each javaBase module
    device,            \* ctx.Device() of each javaBase module's variant
    binaryProperties,  \* JavaBinary.binaryProperties
    prebuiltSrcs,      \* JavaPrebuilt.properties.Srcs
    pc,                \* position of each module in its passes
    declared,          \* result of AndroidDynamicDependencies, handed to the graph
    visited,           \* order in which VisitDirectDeps visited the dependencies
    collected,         \* what collectDeps returned to GenerateJavaBuildActions
    classpathFile,     \* j.classpathFile
    classJarSpecs,     \* j.classJarSpecs
    resourceJarSpecs,  \* j.resourceJarSpecs
    installFile,       \* j.installFile
    stages,            \* build rules and installs emitted through ctx, in order
    errors             \* errors reported through ctx.ModuleErrorf, and panics

vars == <<properties, device, binaryProperties, prebuiltSrcs, pc, declared, visited,
          collected, classpathFile, classJarSpecs, resourceJarSpecs, installFile,
          stages, errors>>

(***************************************************************************)
(* Bounds of the model.                                                    *)
(***************************************************************************)
\* longest java_libs / java_static_libs list of the varied descriptor
MaxLibs == 1
\* most direct dependencies the graph visits for one module
MaxVisit == 2
\* longest srcs list of a prebuilt
MaxSrcs == 2

(***************************************************************************)
(* The modules of the build graph.                                         *)
(***************************************************************************)
Prebuilts == {"core-libart"}
Libraries == {"libb"}
Binaries == {"app"}
\* modules of another type, which do not implement JavaDependency
OtherModules == {"tool"}
JavaBaseModules == Libraries \cup Binaries
JavaDependencies == JavaBaseModules \cup Prebuilts
Modules == JavaDependencies \cup OtherModules

\* module.(JavaDependency) type assertion
IsJavaDependency(module) == module \in JavaDependencies

\* ctx.OtherModuleName / ctx.ModuleName: a module is identified by its name
OtherModuleName(module) == module

\* all sequences without repetition over S of length at most n
InjSeqs(S, n) ==
    UNION {{s \in [1..k -> S] : \A a, b \in 1..k : a # b => s[a] # s[b]} : k \in 0..n}

(***************************************************************************)
(* Paths and jarSpecs.                                                     *)
(***************************************************************************)
ModuleSrcDir(m) == m
ModuleOutDir(m) == "out/" \o m
\* filepath.Join
Join(dir, file) == dir \o "/" \o file

\* jarSpec{fileList, dir}; kind records which builder produced it
JarSpec(kind, dir) == [kind |-> kind, dir |-> dir, fileList |-> dir \o ".list"]

\* strings.Join
RECURSIVE JoinStrings(_, _)
JoinStrings(l, sep) ==
    IF Len(l) = 0 THEN ""
    ELSE IF Len(l) = 1 THEN l[1]
    ELSE l[1] \o sep \o JoinStrings(Tail(l), sep)

\* one emitted build rule or install
Stage(rule, input, jarSpecs, flags, deps, output) ==
    [rule |-> rule, input |-> input, jarSpecs |-> jarSpecs, flags |-> flags,
     deps |-> deps, output |-> output]

NoFlags == [bootClasspath |-> "", classpath |-> ""]

(***************************************************************************)
(* The rule builders java.go calls (builder.go, resources.go, package      *)
(* common): each emits one rule and returns the path or jarSpec of its     *)
(* output.                                                                 *)
(***************************************************************************)
\* the class jarSpec that TransformJavaToClasses returns
ClassesJarSpec(m) == JarSpec("class", Join(ModuleOutDir(m), "classes"))

TransformJavaToClasses(m, flags, deps) ==
    Stage("javac", "", <<>>, flags, deps, ClassesJarSpec(m).dir)

\* one resource jarSpec for each resource directory, in order
ResourceDirsToJarSpecs(m, dirs) ==
    [i \in 1..Len(dirs) |-> JarSpec("resource", Join(ModuleSrcDir(m), dirs[i]))]

ClassesFullDebugJar(m) == Join(ModuleOutDir(m), "classes-full-debug.jar")

TransformClassesToJar(m, jarSpecs, manifest) ==
    Stage("jar", manifest, jarSpecs, NoFlags, <<>>, ClassesFullDebugJar(m))

ClassesJarJar(m) == Join(ModuleOutDir(m), "classes-jarjar.jar")

TransformJarJar(m, classesJar, rulesFile) ==
    Stage("jarjar", classesJar, <<>>, NoFlags, <<rulesFile>>, ClassesJarJar(m))

ClassesDex(m) == Join(ModuleOutDir(m), "classes.dex")

TransformClassesJarToDex(m, classesJar) ==
    Stage("dx", classesJar, <<>>, NoFlags, <<>>, ClassesDex(m))

JavaLibJar(m) == Join(ModuleOutDir(m), "javalib.jar")

TransformDexToJavaLib(m, jarSpecs, dexFile) ==
    Stage("javalib", dexFile, jarSpecs, NoFlags, <<>>, JavaLibJar(m))

PrebuiltClassesJarSpec(m) == JarSpec("class", Join(ModuleOutDir(m), "prebuilt/classes"))
PrebuiltResourcesJarSpec(m) ==
    JarSpec("resource", Join(ModuleOutDir(m), "prebuilt/resources"))

TransformPrebuiltJarToClasses(m, prebuilt) ==
    Stage("extract", prebuilt, <<>>, NoFlags, <<>>, PrebuiltClassesJarSpec(m).dir)

\* ctx.InstallFileName / ctx.InstallFile: the installed path
InstalledPath(dir, name) == Join(Join("install", dir), name)

InstallFileName(dir, name, srcPath, deps) ==
    Stage("install", srcPath, <<>>, NoFlags, deps, InstalledPath(dir, name))

\* the rules whose builder may report a failure through ctx
FailPoints == {"none", "javac", "jar", "jarjar", "dx", "javalib"}

(***************************************************************************)
(* javaBase                                                                *)
(***************************************************************************)
\* BootClasspath with the host variant linking core-libart whatever Dex is
BootClasspathIgnoringDex(j, ctxDevice) ==
    IF ctxDevice
    THEN IF j.Sdk_version = "" THEN "core-libart"
         ELSE IF j.Sdk_version = "current" THEN "android_stubs_current"
         ELSE IF j.Sdk_version = "system_current" THEN "android_system_stubs_current"
         ELSE "sdk_v" \o j.Sdk_version
    ELSE "core-libart"

\* func (j *javaBase) BootClasspath(ctx)
BootClasspath(j, ctxDevice) ==
    IF ctxDevice
    THEN IF j.Sdk_version = "" THEN "core-libart"
         ELSE IF j.Sdk_version = "current" THEN "android_stubs_current"
         ELSE IF j.Sdk_version = "system_current" THEN "android_system_stubs_current"
         ELSE "sdk_v" \o j.Sdk_version
    ELSE IF j.Dex THEN "core-libart"
         ELSE ""

\* AndroidDynamicDependencies asking for the boot library of the device variant
AndroidDynamicDependenciesOfDevice(j, ctxDevice) ==
    LET bootClasspath == BootClasspath(j, TRUE)
        deps0 == IF ~j.No_standard_libraries /\ bootClasspath # ""
                 THEN <<bootClasspath>>
                 ELSE <<>>
    IN  (deps0 \o j.Java_libs) \o j.Java_static_libs

\* AndroidDynamicDependencies without the test for an empty boot name
AndroidDynamicDependenciesUnchecked(j, ctxDevice) ==
    LET bootClasspath == BootClasspath(j, ctxDevice)
        deps0 == IF ~j.No_standard_libraries THEN <<bootClasspath>> ELSE <<>>
    IN  (deps0 \o j.Java_libs) \o j.Java_static_libs

\* func (j *javaBase) AndroidDynamicDependencies(ctx)
AndroidDynamicDependencies(j, ctxDevice) ==
    LET bootClasspath == BootClasspath(j, ctxDevice)
        deps0 == IF ~j.No_standard_libraries /\ bootClasspath # ""
                 THEN <<bootClasspath>>
                 ELSE <<>>
    IN  (deps0 \o j.Java_libs) \o j.Java_static_libs

\* func inList(s, l)
inList(s, l) == \E i \in 1..Len(l) : l[i] = s

\* ClasspathFile returning a field that was never assigned
ClasspathFileUnset(module) == ""

\* the JavaDependency interface of a visited module
ClasspathFile(module) == classpathFile[module]
ClassJarSpecs(module) == classJarSpecs[module]
ResourceJarSpecs(module) == resourceJarSpecs[module]

\* the named results of collectDeps before the first visit; panic is the value
\* a visit panicked with, errors what it reported through ctx.ModuleErrorf
NoDeps ==
    [classpath |-> <<>>, bootClasspath |-> "", classJarSpecs |-> <<>>,
     resourceJarSpecs |-> <<>>, errors |-> <<>>, panic |-> <<>>]

\* Classify with a name that matches nothing taken for a java_libs entry
ClassifyUnknownAsLink(j, ctxDevice, otherName) ==
    IF inList(otherName, j.Java_libs) THEN "link"
    ELSE IF inList(otherName, j.Java_static_libs) THEN "merge"
    ELSE IF otherName = BootClasspath(j, ctxDevice) THEN "boot"
    ELSE "link"

\* Classify with the boot library taken for a classpath entry
ClassifyBootAsLink(j, ctxDevice, otherName) ==
    IF inList(otherName, j.Java_libs) THEN "link"
    ELSE IF inList(otherName, j.Java_static_libs) THEN "merge"
    ELSE IF otherName = BootClasspath(j, ctxDevice) THEN "link"
    ELSE "unknown"

\* Classify with the boot name tested ahead of the two lists
ClassifyBootFirst(j, ctxDevice, otherName) ==
    IF otherName = BootClasspath(j, ctxDevice) THEN "boot"
    ELSE IF inList(otherName, j.Java_libs) THEN "link"
    ELSE IF inList(otherName, j.Java_static_libs) THEN "merge"
    ELSE "unknown"

\* Classify without the test for the boot name
ClassifyWithoutBoot(j, ctxDevice, otherName) ==
    IF inList(otherName, j.Java_libs) THEN "link"
    ELSE IF inList(otherName, j.Java_static_libs) THEN "merge"
    ELSE "unknown"

\* the if-else chain of the visitor: which list or name otherName matches first
Classify(j, ctxDevice, otherName) ==
    IF inList(otherName, j.Java_libs) THEN "link"
    ELSE IF inList(otherName, j.Java_static_libs) THEN "merge"
    ELSE IF otherName = BootClasspath(j, ctxDevice) THEN "boot"
    ELSE "unknown"

\* the function collectDeps passes to ctx.VisitDirectDeps
VisitDep(j, ctxDevice, acc, module) ==
    LET otherName == OtherModuleName(module)
        class == Classify(j, ctxDevice, otherName)
    IN
    IF IsJavaDependency(module)
    THEN IF class = "link"
         THEN [acc EXCEPT !.classpath = Append(@, ClasspathFile(module))]
         ELSE IF class = "merge"
         THEN [acc EXCEPT !.classpath = Append(@, ClasspathFile(module)),
                          !.classJarSpecs = @ \o ClassJarSpecs(module),
                          !.resourceJarSpecs = @ \o ResourceJarSpecs(module)]
         ELSE IF class = "boot"
         THEN [acc EXCEPT !.bootClasspath = ClasspathFile(module)]
         ELSE [acc EXCEPT !.panic = <<"unknown dependency", otherName>>]
    ELSE [acc EXCEPT !.errors = Append(@, <<"unknown dependency module type", otherName>>)]

\* ctx.VisitDirectDeps over deps[i..]: a panic ends the walk
RECURSIVE VisitDirectDeps(_, _, _, _, _)
VisitDirectDeps(j, ctxDevice, deps, i, acc) ==
    IF i > Len(deps) \/ acc.panic # <<>> THEN acc
    ELSE VisitDirectDeps(j, ctxDevice, deps, i + 1, VisitDep(j, ctxDevice, acc, deps[i]))

\* func (j *javaBase) collectDeps(ctx), deps being the graph's direct dependencies
collectDeps(j, ctxDevice, deps) == VisitDirectDeps(j, ctxDevice, deps, 1, NoDeps)

\* what a rule builder reports through ctx when it fails
RuleFailed(rule, fail) == IF fail = rule THEN <<<<"rule failed", rule>>>> ELSE <<>>

\* the module's fields and context when GenerateJavaBuildActions returns or panics
Return(c, emitted, errs, cjs, rjs, cpf, inst) ==
    [collected |-> c, stages |-> emitted, errors |-> errs, classJarSpecs |-> cjs,
     resourceJarSpecs |-> rjs, classpathFile |-> cpf, installFile |-> inst]

\* resourceJarSpecs = append(ResourceDirsToJarSpecs(...), resourceJarSpecs...)
MergedResourceJarSpecs(own, deps) == own \o deps

\* the module's own classes without those of its java_static_libs
MergedClassJarSpecsOwnOnly(classes, deps) == <<classes>>

\* classJarSpecs = append([]jarSpec{classes}, classJarSpecs...)
MergedClassJarSpecs(classes, deps) == <<classes>> \o deps

\* the resource jarSpecs ahead of the class jarSpecs
AllJarSpecsResourcesFirst(cjs, rjs) == rjs \o cjs

\* allJarSpecs: the class jarSpecs, then the resource jarSpecs
AllJarSpecs(cjs, rjs) == cjs \o rjs

\* the jarjar output dropped: outputFile keeps naming the primary merge's jar
RenamedOutputDropped(j, jarOutput, jarjarOutput) == jarOutput

\* outputFile naming the jarjar jar whether or not jarjar ran
RenamedOutputAlways(j, jarOutput, jarjarOutput) == jarjarOutput

\* outputFile after the jarjar block
RenamedOutput(j, jarOutput, jarjarOutput) ==
    IF j.Jarjar_rules # "" THEN jarjarOutput ELSE jarOutput

\* the javalib jar dropped: the jar of classes is installed
FinalOutputDropped(j, outputFile, javalibOutput) == outputFile

\* outputFile after the Dex block, which is what gets installed
FinalOutput(j, outputFile, javalibOutput) ==
    IF j.Dex THEN javalibOutput ELSE outputFile

\* func (j *javaBase) GenerateJavaBuildActions(ctx): deps are the direct
\* dependencies in the order the graph visits them, fail the rule whose builder
\* reports a failure (ctx.Failed() is true once any error was reported)
GenerateJavaBuildActions(m, deps, fail) ==
    LET j == properties[m]
        c == collectDeps(j, device[m], deps)
        flags == [bootClasspath |-> IF c.bootClasspath # ""
                                    THEN "-bootclasspath " \o c.bootClasspath ELSE "",
                  classpath |-> IF Len(c.classpath) > 0
                                THEN "-classpath " \o JoinStrings(c.classpath, ":") ELSE ""]
        javacDeps == (IF c.bootClasspath # "" THEN <<c.bootClasspath>> ELSE <<>>)
                     \o (IF Len(c.classpath) > 0 THEN c.classpath ELSE <<>>)
        classes == ClassesJarSpec(m)
        s1 == <<TransformJavaToClasses(m, flags, javacDeps)>>
        e1 == c.errors \o RuleFailed("javac", fail)
        rjs == MergedResourceJarSpecs(ResourceDirsToJarSpecs(m, j.Resource_dirs),
                                      c.resourceJarSpecs)
        cjs == MergedClassJarSpecs(classes, c.classJarSpecs)
        manifest == IF j.Manifest # "" THEN Join(ModuleSrcDir(m), j.Manifest) ELSE ""
        jar == TransformClassesToJar(m, AllJarSpecs(cjs, rjs), manifest)
        s2 == Append(s1, jar)
        e2 == e1 \o RuleFailed("jar", fail)
        hasJarjar == j.Jarjar_rules # ""
        jarjar == TransformJarJar(m, jar.output, Join(ModuleSrcDir(m), j.Jarjar_rules))
        s3 == IF hasJarjar THEN Append(s2, jarjar) ELSE s2
        e3 == IF hasJarjar THEN e2 \o RuleFailed("jarjar", fail) ELSE e2
        outputFile == RenamedOutput(j, jar.output, jarjar.output)
        dx == TransformClassesJarToDex(m, outputFile)
        s4 == Append(s3, dx)
        e4 == e3 \o RuleFailed("dx", fail)
        javalib == TransformDexToJavaLib(m, rjs, dx.output)
        s5 == Append(s4, javalib)
        e5 == e4 \o RuleFailed("javalib", fail)
        install == InstallFileName("framework", m \o ".jar",
                                   FinalOutput(j, outputFile, javalib.output), <<>>)
    IN  IF c.panic # <<>>
        THEN Return(c, <<>>, Append(c.errors, c.panic), classJarSpecs[m],
                    resourceJarSpecs[m], classpathFile[m], installFile[m])
        ELSE IF e1 # <<>>
        THEN Return(c, s1, e1, classJarSpecs[m], resourceJarSpecs[m],
                    classpathFile[m], installFile[m])
        ELSE IF e2 # <<>>
        THEN Return(c, s2, e2, classJarSpecs[m], resourceJarSpecs[m],
                    classpathFile[m], installFile[m])
        ELSE IF e3 # <<>>
        THEN Return(c, s3, e3, cjs, rjs, classpathFile[m], installFile[m])
        ELSE IF j.Dex /\ e4 # <<>>
        THEN Return(c, s4, e4, cjs, rjs, outputFile, installFile[m])
        ELSE IF j.Dex
        THEN Return(c, Append(s5, install), e5, cjs, rjs, outputFile, install.output)
        ELSE Return(c, Append(s3, install), e3, cjs, rjs, outputFile, install.output)

\* whether the call ended in the panic of collectDeps
Panicked(r) == r.collected.panic # <<>>

\* the position of a module after its build actions were generated
After(r) == IF Panicked(r) THEN "panicked" ELSE IF r.errors # <<>> THEN "failed" ELSE "done"

\* func (j *JavaBinary) GenerateJavaBuildActions(ctx): the library's actions, then
\* the install of the wrapper script, which depends on j.installFile
BinaryGenerateJavaBuildActions(m, deps, fail) ==
    LET r == GenerateJavaBuildActions(m, deps, fail)
        wrapper == Join(ModuleSrcDir(m), binaryProperties[m].Wrapper)
        install == Stage("install", wrapper, <<>>, NoFlags, <<r.installFile>>,
                         InstalledPath("bin", binaryProperties[m].Wrapper))
    IN  IF Panicked(r) THEN r ELSE [r EXCEPT !.stages = Append(@, install)]

(***************************************************************************)
(* The build graph.  GraphDeps(m) are the modules the graph may hold as    *)
(* direct dependencies of m: whatever names m declared, the graph decides  *)
(* what it resolves and in which order VisitDirectDeps visits.  It         *)
(* generates a module's build actions after those of its dependencies, so  *)
(* only modules whose build actions were generated are visited; a module   *)
(* of another type is always there.                                        *)
(***************************************************************************)
GraphDeps(m) ==
    IF m \in Binaries THEN Libraries \cup Prebuilts \cup OtherModules
    ELSE IF m \in Libraries THEN Prebuilts
    ELSE {}

Generated(x) == x \in OtherModules \/ pc[x] \in {"done", "failed", "panicked"}

VisitOrders(m) == InjSeqs({x \in GraphDeps(m) : Generated(x)}, MaxVisit)

\* the graph resolves every module's dependencies before it generates any
AllDeclared == \A x \in JavaBaseModules : pc[x] # "new"

(***************************************************************************)
(* Descriptors: what the property loader and the factories can leave in a  *)
(* module.  JavaLibraryFactory and JavaBinaryFactory set Dex and support   *)
(* host and device; the host factories leave Dex false and support host    *)
(* only.                                                                   *)
(***************************************************************************)
\* <<Dex, ctx.Device(), Sdk_version>>; sdk_version is varied where BootClasspath
\* reads it
Variants == {<<TRUE, TRUE, "">>, <<TRUE, TRUE, "current">>, <<FALSE, FALSE, "">>}
\* names the varied descriptor lists in java_libs and java_static_libs
LibNames == {"core-libart", "libb"}

Properties(nostd, libs, static, sdk, dex, jarjar, resdirs) ==
    [No_standard_libraries |-> nostd, Java_libs |-> libs, Java_static_libs |-> static,
     Sdk_version |-> sdk, Dex |-> dex, Jarjar_rules |-> jarjar,
     Resource_dirs |-> resdirs, Manifest |-> ""]

\* <<properties, ctx.Device()>> of the binary
BinaryDescriptors ==
    {<<Properties(nostd, libs, static, v[3], v[1], jarjar, <<"res">>), v[2]>> :
        nostd \in BOOLEAN, libs \in InjSeqs(LibNames, MaxLibs),
        static \in InjSeqs(LibNames, MaxLibs), v \in Variants,
        jarjar \in {"", "jarjar-rules.txt"}}

\* <<properties, ctx.Device()>> of the library the binary may depend on
LibraryDescriptors ==
    {<<Properties(FALSE, <<>>, <<"core-libart">>, "", FALSE, "", <<"res">>), FALSE>>}

\* srcs of a prebuilt: no jar, one jar, or as many as the bound allows
PrebuiltSrcs == UNION {[1..k -> {"core.jar"}] : k \in {0, 1, MaxSrcs}}

Descriptors(m) == IF m \in Binaries THEN BinaryDescriptors ELSE LibraryDescriptors

Init ==
    /\ \E d \in [JavaBaseModules -> BinaryDescriptors \cup LibraryDescriptors] :
          /\ \A m \in JavaBaseModules : d[m] \in Descriptors(m)
          /\ properties = [m \in JavaBaseModules |-> d[m][1]]
          /\ device = [m \in JavaBaseModules |-> d[m][2]]
    /\ binaryProperties = [m \in Binaries |-> [Wrapper |-> m \o ".sh"]]
    /\ prebuiltSrcs \in [Prebuilts -> PrebuiltSrcs]
    /\ pc = [m \in JavaDependencies |-> "new"]
    /\ declared = [m \in JavaBaseModules |-> <<>>]
    /\ visited = [m \in JavaBaseModules |-> <<>>]
    /\ collected = [m \in JavaBaseModules |-> NoDeps]
    /\ classpathFile = [m \in JavaDependencies |-> ""]
    /\ classJarSpecs = [m \in JavaDependencies |-> <<>>]
    /\ resourceJarSpecs = [m \in JavaDependencies |-> <<>>]
    /\ installFile = [m \in JavaBaseModules |-> ""]
    /\ stages = [m \in JavaDependencies |-> <<>>]
    /\ errors = [m \in JavaDependencies |-> <<>>]

(***************************************************************************)
(* Actions: one per pass of a module.                                      *)
(***************************************************************************)
\* the declaration pass of a javaBase module
DynamicDependencies(m) ==
    /\ pc[m] = "new"
    /\ declared' = [declared EXCEPT ![m] =
                        AndroidDynamicDependencies(properties[m], device[m])]
    /\ pc' = [pc EXCEPT ![m] = "declared"]
    /\ UNCHANGED <<properties, device, binaryProperties, prebuiltSrcs, visited,
                   collected, classpathFile, classJarSpecs, resourceJarSpecs,
                   installFile, stages, errors>>

\* Generate with the class jarSpecs built in place in the slices of the visited
\* dependencies
GenerateSharingJarSpecs(m, deps, r) ==
    /\ visited' = [visited EXCEPT ![m] = deps]
    /\ collected' = [collected EXCEPT ![m] = r.collected]
    /\ classpathFile' = [classpathFile EXCEPT ![m] = r.classpathFile]
    /\ classJarSpecs' = [x \in JavaDependencies |->
                             IF x = m \/ \E i \in 1..Len(deps) : deps[i] = x
                             THEN r.classJarSpecs
                             ELSE classJarSpecs[x]]
    /\ resourceJarSpecs' = [resourceJarSpecs EXCEPT ![m] = r.resourceJarSpecs]
    /\ installFile' = [installFile EXCEPT ![m] = r.installFile]
    /\ stages' = [stages EXCEPT ![m] = r.stages]
    /\ errors' = [errors EXCEPT ![m] = r.errors]
    /\ pc' = [pc EXCEPT ![m] = After(r)]
    /\ UNCHANGED <<properties, device, binaryProperties, prebuiltSrcs, declared>>

\* what a call of GenerateJavaBuildActions that ended as r leaves behind
Generate(m, deps, r) ==
    /\ visited' = [visited EXCEPT ![m] = deps]
    /\ collected' = [collected EXCEPT ![m] = r.collected]
    /\ classpathFile' = [classpathFile EXCEPT ![m] = r.classpathFile]
    /\ classJarSpecs' = [classJarSpecs EXCEPT ![m] = r.classJarSpecs]
    /\ resourceJarSpecs' = [resourceJarSpecs EXCEPT ![m] = r.resourceJarSpecs]
    /\ installFile' = [installFile EXCEPT ![m] = r.installFile]
    /\ stages' = [stages EXCEPT ![m] = r.stages]
    /\ errors' = [errors EXCEPT ![m] = r.errors]
    /\ pc' = [pc EXCEPT ![m] = After(r)]
    /\ UNCHANGED <<properties, device, binaryProperties, prebuiltSrcs, declared>>

\* func (j *javaBase) GenerateAndroidBuildActions(ctx) of a JavaLibrary
LibraryGenerateAndroidBuildActions(m) ==
    /\ pc[m] = "declared"
    /\ AllDeclared
    /\ \E deps \in VisitOrders(m), fail \in FailPoints :
          Generate(m, deps, GenerateJavaBuildActions(m, deps, fail))

\* func (j *javaBase) GenerateAndroidBuildActions(ctx) of a JavaBinary
BinaryGenerateAndroidBuildActions(m) ==
    /\ pc[m] = "declared"
    /\ AllDeclared
    /\ \E deps \in VisitOrders(m), fail \in FailPoints :
          Generate(m, deps, BinaryGenerateJavaBuildActions(m, deps, fail))

\* only an empty srcs is an error
ExactlyOneJarOrMore(srcs) == Len(srcs) >= 1

\* len(j.properties.Srcs) != 1 is an error
ExactlyOneJar(srcs) == Len(srcs) = 1

\* func (j *JavaPrebuilt) GenerateAndroidBuildActions(ctx)
PrebuiltGenerateAndroidBuildActions(m) ==
    /\ pc[m] = "new"
    /\ AllDeclared
    /\ IF ~ExactlyOneJar(prebuiltSrcs[m])
       THEN /\ errors' = [errors EXCEPT ![m] = <<<<"expected exactly one jar in srcs">>>>]
            /\ pc' = [pc EXCEPT ![m] = "failed"]
            /\ UNCHANGED <<classpathFile, classJarSpecs, resourceJarSpecs, stages>>
       ELSE LET prebuilt == Join(ModuleSrcDir(m), prebuiltSrcs[m][1]) IN
            /\ classpathFile' = [classpathFile EXCEPT ![m] = prebuilt]
            /\ classJarSpecs' = [classJarSpecs EXCEPT ![m] = <<PrebuiltClassesJarSpec(m)>>]
            /\ resourceJarSpecs' =
                   [resourceJarSpecs EXCEPT ![m] = <<PrebuiltResourcesJarSpec(m)>>]
            /\ stages' = [stages EXCEPT ![m] =
                   <<TransformPrebuiltJarToClasses(m, prebuilt),
                     InstallFileName("framework", m \o ".jar", prebuilt, <<>>)>>]
            /\ pc' = [pc EXCEPT ![m] = "done"]
            /\ UNCHANGED errors
    /\ UNCHANGED <<properties, device, binaryProperties, prebuiltSrcs, declared,
                   visited, collected, installFile>>

Next ==
    \/ \E m \in JavaBaseModules : DynamicDependencies(m)
    \/ \E m \in Libraries : LibraryGenerateAndroidBuildActions(m)
    \/ \E m \in Binaries : BinaryGenerateAndroidBuildActions(m)
    \/ \E m \in Prebuilts : PrebuiltGenerateAndroidBuildActions(m)

Spec == Init /\ [][Next]_vars

(***************************************************************************)
(* The passes under the graph's ordering of a failing build: the build     *)
(* actions of a module are generated only if those of every dependency it  *)
(* visits were generated without error.                                    *)
(***************************************************************************)
DependenciesBuilt(m) ==
    \A i \in 1..Len(visited[m]) :
        IsJavaDependency(visited[m][i]) => pc[visited[m][i]] = "done"

ScheduledNext ==
    \/ \E m \in JavaBaseModules : DynamicDependencies(m)
    \/ \E m \in Libraries : LibraryGenerateAndroidBuildActions(m) /\ DependenciesBuilt(m)'
    \/ \E m \in Binaries : BinaryGenerateAndroidBuildActions(m) /\ DependenciesBuilt(m)'
    \/ \E m \in Prebuilts : PrebuiltGenerateAndroidBuildActions(m)

ScheduledSpec == Init /\ [][ScheduledNext]_vars

(***************************************************************************)
(* The declaration pass alone, over every sdk_version that BootClasspath   *)
(* tells apart and every variant the factories create.                     *)
(***************************************************************************)
\* sdk_version: the three values BootClasspath names, and two others
SdkVersions == {"", "current", "system_current", "21", "8"}

\* <<Dex, ctx.Device()>>: the device and the host variant of the device
\* factories, and the variant of the host factories
FactoryVariants == {<<TRUE, TRUE>>, <<TRUE, FALSE>>, <<FALSE, FALSE>>}

DeclarationDescriptors ==
    {<<Properties(nostd, libs, static, sdk, v[1], "", <<"res">>), v[2]>> :
        nostd \in BOOLEAN, libs \in InjSeqs(LibNames, MaxLibs),
        static \in InjSeqs(LibNames, MaxLibs), sdk \in SdkVersions,
        v \in FactoryVariants}

DeclarationInit ==
    /\ \E d \in [JavaBaseModules -> DeclarationDescriptors \cup LibraryDescriptors] :
          /\ \A m \in Binaries : d[m] \in DeclarationDescriptors
          /\ \A m \in Libraries : d[m] \in LibraryDescriptors
          /\ properties = [m \in JavaBaseModules |-> d[m][1]]
          /\ device = [m \in JavaBaseModules |-> d[m][2]]
    /\ binaryProperties = [m \in Binaries |-> [Wrapper |-> m \o ".sh"]]
    /\ prebuiltSrcs \in [Prebuilts -> PrebuiltSrcs]
    /\ pc = [m \in JavaDependencies |-> "new"]
    /\ declared = [m \in JavaBaseModules |-> <<>>]
    /\ visited = [m \in JavaBaseModules |-> <<>>]
    /\ collected = [m \in JavaBaseModules |-> NoDeps]
    /\ classpathFile = [m \in JavaDependencies |-> ""]
    /\ classJarSpecs = [m \in JavaDependencies |-> <<>>]
    /\ resourceJarSpecs = [m \in JavaDependencies |-> <<>>]
    /\ installFile = [m \in JavaBaseModules |-> ""]
    /\ stages = [m \in JavaDependencies |-> <<>>]
    /\ errors = [m \in JavaDependencies |-> <<>>]

DeclarationNext == \E m \in JavaBaseModules : DynamicDependencies(m)

DeclarationSpec == DeclarationInit /\ [][DeclarationNext]_vars

(***************************************************************************)
(* Properties.                                                             *)
(***************************************************************************)
\* the build actions of m were generated (the call returned or panicked)
Finished(m) == pc[m] \in {"done", "failed", "panicked"}

\* none of the three fields other modules read through JavaDependency is set
Unpublished(m) ==
    classpathFile[m] = "" /\ classJarSpecs[m] = <<>> /\ resourceJarSpecs[m] = <<>>

HasError(m, kind) == \E i \in 1..Len(errors[m]) : errors[m][i][1] = kind

\* rule is a rule of the library pipeline, or st the install of the library
PipelineStage(m, st) ==
    \/ st.rule \in {"javac", "jar", "jarjar", "dx", "javalib"}
    \/ st.rule = "install" /\ st.output = InstalledPath("framework", m \o ".jar")

\* the builder of rule reported a failure while the actions of m were generated
RuleFailedIn(m, rule) ==
    \E i \in 1..Len(errors[m]) : errors[m][i] = <<"rule failed", rule>>

\* no pipeline stage follows the stage of rule among the stages of m
NothingAfter(m, rule) ==
    \A a, b \in 1..Len(stages[m]) :
        stages[m][a].rule = rule /\ a < b => ~PipelineStage(m, stages[m][b])

\* C1: whenever the compile, primary merge, jarjar or dex stage of a javaBase
\* module reports failure, no later pipeline stage is emitted and classpathFile,
\* classJarSpecs and resourceJarSpecs are all still empty on return.
C1_StageFailurePublishesNothing ==
    \A m \in JavaBaseModules : \A rule \in {"javac", "jar", "jarjar", "dx"} :
        RuleFailedIn(m, rule) => NothingAfter(m, rule) /\ Unpublished(m)

\* the name collectDeps compares a visited module's name with
BootName(m) == BootClasspath(properties[m], device[m])

InLists(m, name) ==
    inList(name, properties[m].Java_libs) \/ inList(name, properties[m].Java_static_libs)

\* name is neither the boot name of m nor in java_libs nor in java_static_libs
UnknownName(m, name) == ~InLists(m, name) /\ name # BootName(m)

\* positions of the visit of m at which the visited module satisfies P
Visits(m, P(_)) == {i \in 1..Len(visited[m]) : P(visited[m][i])}

UnknownVisits(m) == Visits(m, LAMBDA x : UnknownName(m, OtherModuleName(x)))

UnknownJavaVisits(m) ==
    Visits(m, LAMBDA x : UnknownName(m, OtherModuleName(x)) /\ IsJavaDependency(x))

\* visits of a JavaDependency named in java_libs or java_static_libs
ListedJavaVisits(m) ==
    Visits(m, LAMBDA x : InLists(m, OtherModuleName(x)) /\ IsJavaDependency(x))

Min(S) == CHOOSE i \in S : \A k \in S : i <= k

\* C2 as stated: every resolved dependency whose name is neither the boot name nor
\* in java_libs nor in java_static_libs makes collection fail with the
\* unknown-dependency error, nothing is published and nothing of it is collected.
C2_UnknownNameIsUnknownDependency ==
    \A m \in JavaBaseModules :
        Finished(m) /\ UnknownVisits(m) # {} =>
            /\ HasError(m, "unknown dependency")
            /\ Unpublished(m)
            /\ Len(collected[m].classpath) <= Cardinality(ListedJavaVisits(m))

\* C2 amended: a resolved dependency that implements JavaDependency and whose
\* name is neither the boot name nor in either list makes collectDeps panic with
\* the unknown-dependency error for the first such module visited, before any
\* rule is emitted; one that does not implement JavaDependency gets the
\* module-type error instead; in both cases nothing is published and the
\* classpath holds entries of listed dependencies only.
C2_UnknownJavaDependencyPanics ==
    \A m \in JavaBaseModules :
        Finished(m) =>
            /\ UnknownJavaVisits(m) # {} =>
                  /\ pc[m] = "panicked"
                  /\ errors[m][Len(errors[m])] =
                         <<"unknown dependency",
                           OtherModuleName(visited[m][Min(UnknownJavaVisits(m))])>>
                  /\ stages[m] = <<>>
            /\ UnknownVisits(m) # {} =>
                  /\ pc[m] \in {"failed", "panicked"}
                  /\ HasError(m, "unknown dependency")
                        \/ HasError(m, "unknown dependency module type")
                  /\ Unpublished(m)
                  /\ Len(collected[m].classpath) <= Cardinality(ListedJavaVisits(m))

\* C2 witness: a binary whose visit met a JavaDependency it never declared, after
\* a listed one was collected
C2_Witness ==
    \E m \in JavaBaseModules :
        /\ pc[m] = "panicked"
        /\ UnknownJavaVisits(m) # {}
        /\ Len(collected[m].classpath) = 1

\* a name is in both java_libs and java_static_libs
Ambiguous(m) ==
    \E i \in 1..Len(properties[m].Java_libs) :
        inList(properties[m].Java_libs[i], properties[m].Java_static_libs)

\* a module named in both lists was visited
AmbiguousVisits(m) ==
    Visits(m, LAMBDA x : /\ IsJavaDependency(x)
                         /\ inList(OtherModuleName(x), properties[m].Java_libs)
                         /\ inList(OtherModuleName(x), properties[m].Java_static_libs))

\* C3: a module with a name in both java_libs and java_static_libs is rejected
\* with an ambiguous-dependency error at the latest when collectDeps classifies
\* that name: its build actions are never generated successfully with the name
\* silently taken for link-only or for merge.
C3_AmbiguousNameRejected ==
    \A m \in JavaBaseModules :
        Ambiguous(m) /\ AmbiguousVisits(m) # {} => pc[m] # "done"

\* the set of the elements of a sequence
Range(seq) == {seq[i] : i \in 1..Len(seq)}

\* f applied to each element of seq
Map(f(_), seq) == [i \in 1..Len(seq) |-> f(seq[i])]

\* m declared a boot dependency
BootDeclared(m) == ~properties[m].No_standard_libraries /\ BootName(m) # ""

\* the lists of m are disjoint and the graph visited exactly the names m declared,
\* each a JavaDependency
ValidAndResolved(m) ==
    /\ Finished(m)
    /\ ~Ambiguous(m)
    /\ Range(visited[m]) = Range(declared[m])
    /\ \A x \in Range(visited[m]) : IsJavaDependency(x)

StagesOf(m, rule) == SelectSeq(stages[m], LAMBDA st : st.rule = rule)

\* the visited modules that collectDeps takes for java_static_libs entries
MergeVisits(m) ==
    SelectSeq(visited[m],
              LAMBDA x : /\ IsJavaDependency(x)
                         /\ ~inList(OtherModuleName(x), properties[m].Java_libs)
                         /\ inList(OtherModuleName(x), properties[m].Java_static_libs))

\* the concatenation of the sequences of a sequence
RECURSIVE Flatten(_)
Flatten(seqs) == IF Len(seqs) = 0 THEN <<>> ELSE Head(seqs) \o Flatten(Tail(seqs))

\* C5: the jarSpecs handed to TransformClassesToJar are the module's own class
\* jarSpec, then the class jarSpecs of the merge dependencies in collection
\* order, then the jarSpecs of the module's resource directories, then the
\* resource jarSpecs of the merge dependencies; no resource jarSpec precedes a
\* class jarSpec and no dependency's class jarSpec precedes the module's own.
C5_PrimaryMergeOrder ==
    \A m \in JavaBaseModules : \A i \in 1..Len(StagesOf(m, "jar")) :
        LET js == StagesOf(m, "jar")[i].jarSpecs IN
        /\ js = (<<ClassesJarSpec(m)>>
                 \o Flatten(Map(ClassJarSpecs, MergeVisits(m))))
                \o (ResourceDirsToJarSpecs(m, properties[m].Resource_dirs)
                    \o Flatten(Map(ResourceJarSpecs, MergeVisits(m))))
        /\ \A a, b \in 1..Len(js) :
               a < b => ~(js[a].kind = "resource" /\ js[b].kind = "class")
        /\ js[1] = ClassesJarSpec(m)
        /\ \A a \in 2..Len(js) : js[a] # ClassesJarSpec(m)

\* C5 witness: a primary merge of own classes and resources with those of a
\* merge dependency that itself merged a prebuilt
C5_Witness ==
    \E m \in JavaBaseModules :
        /\ Len(StagesOf(m, "jar")) = 1
        /\ Len(StagesOf(m, "jar")[1].jarSpecs) = 6

\* m merged x, and both were built
Merged(m, x) == pc[m] = "done" /\ pc[x] = "done" /\ x \in Range(MergeVisits(m))

\* C6 as stated: the jarSpecs a built module exports are its own compile output
\* and the jarSpecs of its own resource directories only, so that in a chain A
\* merges B, B merges C no jarSpec of C is in the primary merge of A.
C6_ExportsOwnJarSpecsOnly ==
    /\ \A m \in JavaBaseModules :
           pc[m] = "done" =>
               /\ ClassJarSpecs(m) = <<ClassesJarSpec(m)>>
               /\ ResourceJarSpecs(m) =
                      ResourceDirsToJarSpecs(m, properties[m].Resource_dirs)
    /\ \A a, b \in JavaBaseModules : \A c \in JavaDependencies :
           Merged(a, b) /\ Merged(b, c) /\ ~Merged(a, c) =>
               Range(ClassJarSpecs(c)) \cap Range(StagesOf(a, "jar")[1].jarSpecs) = {}

\* C6 amended: the class jarSpecs a built module exports are its own compile
\* output followed by the class jarSpecs exported by its merge dependencies, and
\* its resource jarSpecs those of its own resource directories followed by the
\* resource jarSpecs exported by its merge dependencies (the lists handed to its
\* primary merge); so in a chain A merges B, B merges C the jarSpecs of C are in
\* the primary merge of A.
C6_ExportsOwnThenMergedJarSpecs ==
    /\ \A m \in JavaBaseModules :
           pc[m] = "done" =>
               /\ ClassJarSpecs(m) =
                      <<ClassesJarSpec(m)>> \o Flatten(Map(ClassJarSpecs, MergeVisits(m)))
               /\ ResourceJarSpecs(m) =
                      ResourceDirsToJarSpecs(m, properties[m].Resource_dirs)
                      \o Flatten(Map(ResourceJarSpecs, MergeVisits(m)))
               /\ StagesOf(m, "jar")[1].jarSpecs = ClassJarSpecs(m) \o ResourceJarSpecs(m)
    /\ \A a, b \in JavaBaseModules : \A c \in JavaDependencies :
           Merged(a, b) /\ Merged(b, c) =>
               Range(ClassJarSpecs(c)) \cup Range(ResourceJarSpecs(c))
                   \subseteq Range(StagesOf(a, "jar")[1].jarSpecs)

\* C6 witness: a chain of three built modules, the first merging the second only
C6_Witness ==
    \E a, b \in JavaBaseModules : \E c \in JavaDependencies :
        Merged(a, b) /\ Merged(b, c) /\ ~Merged(a, c)

\* C7: after a successful pipeline classpathFile is the output of the jarjar
\* stage when jarjar_rules is set and the output of the primary merge otherwise,
\* never the output of the dex or of the final merge stage, whatever Dex is.
C7_ExportsRenamedOutput ==
    \A m \in JavaBaseModules :
        pc[m] = "done" =>
            /\ Len(StagesOf(m, "jar")) = 1
            /\ Len(StagesOf(m, "jarjar")) =
                   (IF properties[m].Jarjar_rules # "" THEN 1 ELSE 0)
            /\ ClasspathFile(m) =
                   (IF properties[m].Jarjar_rules # ""
                    THEN StagesOf(m, "jarjar")[1].output
                    ELSE StagesOf(m, "jar")[1].output)
            /\ \A i \in 1..Len(stages[m]) :
                   stages[m][i].rule \in {"dx", "javalib", "install"} =>
                       stages[m][i].output # ClasspathFile(m)

\* C7 witness: a built module with jarjar_rules and Dex both set
C7_Witness ==
    \E m \in JavaBaseModules :
        /\ pc[m] = "done"
        /\ properties[m].Jarjar_rules # ""
        /\ properties[m].Dex

\* C8 as stated: with Dex set a successful pipeline runs the dex stage and
\* classpathFile is the jar of the final merge after it.
C8_ExportsFinalFormatJar ==
    \A m \in JavaBaseModules :
        pc[m] = "done" /\ properties[m].Dex =>
            /\ Len(StagesOf(m, "dx")) = 1
            /\ Len(StagesOf(m, "javalib")) = 1
            /\ ClasspathFile(m) = StagesOf(m, "javalib")[1].output

\* C8 amended: with Dex set a successful pipeline runs the dex stage on the
\* pre-convert jar and the final merge on the dex stage's output and installs
\* the final merge's jar, while classpathFile stays the pre-convert jar (the
\* input of the dex stage).
C8_InstallsFinalFormatJar ==
    \A m \in JavaBaseModules :
        pc[m] = "done" /\ properties[m].Dex =>
            /\ Len(StagesOf(m, "dx")) = 1
            /\ Len(StagesOf(m, "javalib")) = 1
            /\ StagesOf(m, "dx")[1].input = ClasspathFile(m)
            /\ StagesOf(m, "javalib")[1].input = StagesOf(m, "dx")[1].output
            /\ StagesOf(m, "install")[1].input = StagesOf(m, "javalib")[1].output
            /\ StagesOf(m, "install")[1].output = installFile[m]
            /\ ClasspathFile(m) # StagesOf(m, "javalib")[1].output

\* C8 witness: a built module with Dex set and without jarjar_rules
C8_Witness ==
    \E m \in JavaBaseModules :
        /\ pc[m] = "done"
        /\ properties[m].Dex
        /\ properties[m].Jarjar_rules = ""
        /\ installFile[m] # ""

\* the boot name the declaration pass handed to the graph, "" if none
DeclaredBoot(m) ==
    IF Len(declared[m]) >
           Len(properties[m].Java_libs) + Len(properties[m].Java_static_libs)
    THEN declared[m][1]
    ELSE ""

\* visits of a JavaDependency that neither list names
UnlistedJavaVisits(m) ==
    Visits(m, LAMBDA x : IsJavaDependency(x) /\ ~InLists(m, OtherModuleName(x)))

\* C9: with no_standard_libraries false the boot name the declaration pass handed
\* to the graph is the boot name of the collection pass: a visited module that
\* neither list names is taken for the boot entry exactly if its name is the
\* name that was declared, and the declared boot library never raises the
\* unknown-dependency error.
C9_DeclaredBootIsCollectedBoot ==
    \A m \in JavaBaseModules :
        Finished(m) /\ ~properties[m].No_standard_libraries =>
            /\ DeclaredBoot(m) = BootName(m)
            /\ pc[m] # "panicked" =>
                   \A i \in UnlistedJavaVisits(m) :
                       /\ OtherModuleName(visited[m][i]) = DeclaredBoot(m)
                       /\ collected[m].bootClasspath = ClasspathFile(visited[m][i])
            /\ pc[m] = "panicked" =>
                   errors[m][Len(errors[m])] # <<"unknown dependency", DeclaredBoot(m)>>

\* C9 witness: the declared boot library was visited and taken for the boot entry
C9_Witness ==
    \E m \in JavaBaseModules :
        /\ pc[m] = "done"
        /\ ~properties[m].No_standard_libraries
        /\ DeclaredBoot(m) # ""
        /\ DeclaredBoot(m) \in Range(visited[m])
        /\ collected[m].bootClasspath # ""
        /\ collected[m].bootClasspath = ClasspathFile(DeclaredBoot(m))

\* C10: a prebuilt whose srcs has no or several entries reports an error, emits
\* no rule and no install and leaves classpathFile, classJarSpecs and
\* resourceJarSpecs empty; with exactly one entry it publishes that jar's path as
\* classpathFile with exactly one class jarSpec and one resource jarSpec.
C10_PrebuiltExactlyOneJar ==
    \A m \in Prebuilts :
        Finished(m) =>
            IF Len(prebuiltSrcs[m]) # 1
            THEN /\ pc[m] = "failed"
                 /\ errors[m] # <<>>
                 /\ stages[m] = <<>>
                 /\ Unpublished(m)
            ELSE /\ pc[m] = "done"
                 /\ errors[m] = <<>>
                 /\ ClasspathFile(m) = Join(ModuleSrcDir(m), prebuiltSrcs[m][1])
                 /\ Len(ClassJarSpecs(m)) = 1
                 /\ ClassJarSpecs(m)[1].kind = "class"
                 /\ Len(ResourceJarSpecs(m)) = 1
                 /\ ResourceJarSpecs(m)[1].kind = "resource"
                 /\ StagesOf(m, "install")[1].input = ClasspathFile(m)

\* C10 witness: a prebuilt with several jars in srcs was rejected
C10_Witness ==
    \E m \in Prebuilts :
        pc[m] = "failed" /\ Len(prebuiltSrcs[m]) >= 2 /\ Unpublished(m)

\* a visit of a module that does not implement JavaDependency
OtherTypeVisits(m) == Visits(m, LAMBDA x : ~IsJavaDependency(x))

\* C11: when a visited dependency does not implement JavaDependency, collection
\* reports the module-type error and the module is aborted at once: no rule at
\* all, not even the compile, is emitted for it and nothing is published.
C11_TypeMismatchEmitsNothing ==
    \A m \in JavaBaseModules :
        Finished(m) /\ pc[m] # "panicked" /\ OtherTypeVisits(m) # {} =>
            /\ HasError(m, "unknown dependency module type")
            /\ stages[m] = <<>>
            /\ Unpublished(m)

\* the name the policy table gives for a variant and an sdk_version
PolicyTable(ctxDevice, dex, sdk) ==
    CASE ctxDevice /\ sdk = "" -> "core-libart"
      [] ctxDevice /\ sdk = "current" -> "android_stubs_current"
      [] ctxDevice /\ sdk = "system_current" -> "android_system_stubs_current"
      [] ctxDevice /\ sdk \notin {"", "current", "system_current"} -> "sdk_v" \o sdk
      [] ~ctxDevice /\ dex -> "core-libart"
      [] ~ctxDevice /\ ~dex -> ""

\* C12: the boot name of every module is the one the policy table gives for its
\* variant, Dex and sdk_version: on a device core-libart for "", the stubs
\* library for "current", the system stubs library for "system_current" and
\* sdk_v<V> for any other V; on the host core-libart if Dex is set and no name
\* otherwise, whatever sdk_version is; and this is the name the declaration pass
\* hands to the graph when no_standard_libraries is false.
C12_BootClasspathPolicyTable ==
    \A m \in JavaBaseModules :
        /\ BootName(m) =
               PolicyTable(device[m], properties[m].Dex, properties[m].Sdk_version)
        /\ pc[m] # "new" /\ ~properties[m].No_standard_libraries =>
               DeclaredBoot(m) =
                   PolicyTable(device[m], properties[m].Dex, properties[m].Sdk_version)
        /\ ~device[m] /\ ~properties[m].Dex => BootName(m) = ""
        /\ device[m] \/ properties[m].Dex => BootName(m) # ""

\* C12 witness: a device module with a numbered sdk_version declared sdk_v<V>
C12_Witness ==
    \E m \in JavaBaseModules :
        /\ pc[m] = "declared"
        /\ device[m]
        /\ properties[m].Sdk_version = "21"
        /\ declared[m][1] = "sdk_v21"

\* C13: the declaration pass returns the boot name (exactly if
\* no_standard_libraries is false and the boot name is not empty), then the
\* names of java_libs in order, then those of java_static_libs in order, and
\* nothing else; the empty name is never declared.
C13_DeclaredNames ==
    \A m \in JavaBaseModules :
        pc[m] # "new" =>
            LET j == properties[m]
                hasBoot == ~j.No_standard_libraries /\ BootName(m) # ""
                n == IF hasBoot THEN 1 ELSE 0
            IN  /\ Len(declared[m]) = (n + Len(j.Java_libs)) + Len(j.Java_static_libs)
                /\ hasBoot => declared[m][1] = BootName(m)
                /\ \A i \in 1..Len(j.Java_libs) : declared[m][n + i] = j.Java_libs[i]
                /\ \A i \in 1..Len(j.Java_static_libs) :
                       declared[m][(n + Len(j.Java_libs)) + i] = j.Java_static_libs[i]
                /\ \A i \in 1..Len(declared[m]) : declared[m][i] # ""

\* C13 witness: a host module without Dex, which has no boot name, declared its
\* two lists and nothing else
C13_Witness ==
    \E m \in JavaBaseModules :
        /\ pc[m] = "declared"
        /\ ~properties[m].No_standard_libraries
        /\ BootName(m) = ""
        /\ Len(properties[m].Java_libs) >= 1
        /\ Len(properties[m].Java_static_libs) >= 1
        /\ declared[m] = properties[m].Java_libs \o properties[m].Java_static_libs

\* the rules of the pipeline among the stages of m, in the order of emission
Pipeline(m) ==
    SelectSeq(stages[m], LAMBDA st : st.rule \in {"javac", "jar", "jarjar", "dx", "javalib"})

\* C14: after a successful run the rules emitted are, in this order, the compile,
\* the primary merge, the jarjar rule exactly if jarjar_rules is set, and the dex
\* rule with the final merge exactly if Dex is set; they are emitted ahead of
\* every install, and each rule from the jarjar rule on has for input the output
\* of the rule emitted just before it.
C14_StagesFormLinearChain ==
    \A m \in JavaBaseModules :
        pc[m] = "done" =>
            LET p == Pipeline(m) IN
            /\ Map(LAMBDA st : st.rule, p) =
                   (<<"javac", "jar">>
                    \o (IF properties[m].Jarjar_rules # "" THEN <<"jarjar">> ELSE <<>>))
                   \o (IF properties[m].Dex THEN <<"dx", "javalib">> ELSE <<>>)
            /\ SubSeq(stages[m], 1, Len(p)) = p
            /\ \A i \in 3..Len(p) : p[i].input = p[i - 1].output
            /\ p[2].jarSpecs[1].dir = p[1].output

\* C14 witness: a successful run that emitted all five rules
C14_Witness ==
    \E m \in JavaBaseModules : pc[m] = "done" /\ Len(Pipeline(m)) = 5

\* the install of the wrapper script of the binary m
WrapperInstall(m, st) ==
    st.rule = "install" /\ st.output = InstalledPath("bin", binaryProperties[m].Wrapper)

\* C15: whenever the install of a binary's wrapper script is emitted, the
\* library's install was emitted before it and the wrapper's dependency is the
\* installed path of the library's jar: never the empty path and never a path
\* of the build, also when a rule of the library or the collection failed.
C15_WrapperDependsOnInstalledJar ==
    \A m \in Binaries : \A i \in 1..Len(stages[m]) :
        WrapperInstall(m, stages[m][i]) =>
            /\ stages[m][i].deps = <<InstalledPath("framework", m \o ".jar")>>
            /\ \E k \in 1..(i - 1) :
                   /\ stages[m][k].rule = "install"
                   /\ stages[m][k].output = stages[m][i].deps[1]

\* the javac rules of m carry no -bootclasspath flag and no boot dependency
NoBootFlag(m) ==
    \A i \in 1..Len(StagesOf(m, "javac")) :
        StagesOf(m, "javac")[i].flags.bootClasspath = ""

\* C16: with no_standard_libraries set no boot name is declared and, when the
\* graph visits declared names only, collectDeps returns no boot entry and the
\* compile carries no -bootclasspath flag, also when the name BootClasspath
\* returns is in java_libs or java_static_libs.
C16_NoStandardLibrariesNoBoot ==
    \A m \in JavaBaseModules :
        /\ pc[m] # "new" /\ properties[m].No_standard_libraries =>
               /\ DeclaredBoot(m) = ""
               /\ declared[m] = properties[m].Java_libs \o properties[m].Java_static_libs
        /\ /\ Finished(m)
           /\ properties[m].No_standard_libraries
           /\ Range(visited[m]) \subseteq Range(declared[m])
           => /\ collected[m].bootClasspath = ""
              /\ pc[m] # "panicked"
              /\ Len(StagesOf(m, "javac")) = 1
              /\ NoBootFlag(m)

\* C16 witness: a module with no_standard_libraries that lists the library its
\* variant would link as boot library, visited it built, and was built
C16_Witness ==
    \E m \in JavaBaseModules :
        /\ pc[m] = "done"
        /\ properties[m].No_standard_libraries
        /\ InLists(m, BootName(m))
        /\ BootName(m) \in Range(visited[m])
        /\ pc[BootName(m)] = "done"
        /\ Len(StagesOf(m, "javac")) = 1

\* visits of a built JavaDependency that bears the boot name of m
BootVisits(m) ==
    Visits(m, LAMBDA x : /\ IsJavaDependency(x)
                         /\ OtherModuleName(x) = BootName(m)
                         /\ pc[x] = "done")

\* C17: with no_standard_libraries false a visited dependency whose name is the
\* boot name is recorded as the boot entry and gives the compile its
\* -bootclasspath flag, also when java_libs or java_static_libs names it: its
\* entry is never appended to the classpath instead.
C17_BootTestTakesPrecedence ==
    \A m \in JavaBaseModules :
        Finished(m) /\ pc[m] # "panicked" /\ ~properties[m].No_standard_libraries =>
            \A i \in BootVisits(m) :
                /\ collected[m].bootClasspath = ClasspathFile(visited[m][i])
                /\ \A k \in 1..Len(StagesOf(m, "javac")) :
                       StagesOf(m, "javac")[k].flags.bootClasspath =
                           "-bootclasspath " \o ClasspathFile(visited[m][i])
                /\ \A k \in 1..Len(collected[m].classpath) :
                       collected[m].classpath[k] # ClasspathFile(visited[m][i])

\* the fields of x that its own passes compute
Computed(x) ==
    <<pc[x], classpathFile[x], classJarSpecs[x], resourceJarSpecs[x], stages[x],
      errors[x]>>

\* the fields that only a javaBase module has
ComputedOfJavaBase(x) == <<declared[x], visited[x], collected[x], installFile[x]>>

\* C18: a pass of one module, the declaration or the generation of its build
\* actions, successful or failed, changes the computed fields of that module
\* only: no module's properties change, and classpathFile, classJarSpecs,
\* resourceJarSpecs, installFile and the other computed fields of its
\* dependencies and of every other module stay as they were.
C18_OnlyOwnFieldsChange ==
    [][/\ properties' = properties
       /\ device' = device
       /\ binaryProperties' = binaryProperties
       /\ prebuiltSrcs' = prebuiltSrcs
       /\ \E m \in JavaDependencies :
              /\ pc'[m] # pc[m]
              /\ \A x \in JavaDependencies \ {m} : Computed(x)' = Computed(x)
              /\ \A x \in JavaBaseModules \ {m} :
                     ComputedOfJavaBase(x)' = ComputedOfJavaBase(x)]_vars

\* C18 witness: a module was built after a library it merged, and the library
\* still exports what it had published
C18_Witness ==
    \E m, x \in JavaBaseModules :
        /\ Merged(m, x)
        /\ ClassJarSpecs(x)[1] = ClassesJarSpec(x)
        /\ ClassJarSpecs(m)[1] = ClassesJarSpec(m)
        /\ installFile[x] # ""
        /\ installFile[m] # ""

\* x published all that JavaDependency exports
Published(x) == classpathFile[x] # "" /\ classJarSpecs[x] # <<>>

BootOnlyVisits(m) ==
    Visits(m, LAMBDA x : OtherModuleName(x) = BootName(m) /\ ~InLists(m, OtherModuleName(x)))

\* C20: when java_libs and java_static_libs are disjoint and the graph visits
\* exactly the names the declaration pass returned, each a JavaDependency,
\* collectDeps takes every visited module for exactly one of boot entry,
\* java_libs entry and java_static_libs entry, and raises neither the
\* unknown-dependency error nor the module-type error.
C20_DeclaredNamesAreClassified ==
    \A m \in JavaBaseModules :
        ValidAndResolved(m) =>
            /\ pc[m] # "panicked"
            /\ collected[m].panic = <<>>
            /\ ~HasError(m, "unknown dependency")
            /\ ~HasError(m, "unknown dependency module type")
            /\ UnknownVisits(m) = {}
            /\ Cardinality(BootOnlyVisits(m)) <= 1
            /\ Len(collected[m].classpath) + Cardinality(BootOnlyVisits(m))
                   = Len(visited[m])
            /\ Len(MergeVisits(m)) + Cardinality(BootOnlyVisits(m)) <= Len(visited[m])
            /\ \A i \in BootOnlyVisits(m) :
                   collected[m].bootClasspath = classpathFile[visited[m][i]]
            /\ BootOnlyVisits(m) = {} => collected[m].bootClasspath = ""

\* C20 witness: the declared boot library and a declared java_libs entry were
\* both visited and classified
C20_Witness ==
    \E m \in JavaBaseModules :
        /\ ValidAndResolved(m)
        /\ Len(visited[m]) = 2
        /\ Cardinality(BootOnlyVisits(m)) = 1
        /\ Len(properties[m].Java_libs) = 1
        /\ Len(collected[m].classpath) = 1
        /\ collected[m].bootClasspath # ""

====
